---- MODULE Spec2Model ----
(***************************************************************************)
(* Model of tools/profile_converter.py (Rekall profile converter).         *)
(*                                                                         *)
(* Two specifications:                                                     *)
(*   Spec       the program: main, ConvertProfile, the converters'         *)
(*              Convert and WriteProfile, on archives drawn from Archives. *)
(*   ParseSpec  the two ParseSystemMap methods as pure functions, applied  *)
(*              to every text of bounded length over a pool of lines.      *)
(*                                                                         *)
(* Representation.                                                         *)
(*   - A str read from an archive entry is a sequence: the empty str is    *)
(*     <<>>, so Python's truth test of a str is Len > 0.                   *)
(*   - A System.map text is the sequence of its lines (splitlines), a line *)
(*     the sequence of its fields (line.strip().split()); the address      *)
(*     field is a tuple of characters, the other fields are strings.       *)
(*   - An address (a Python long) is the tuple of its hexadecimal digits,  *)
(*     most significant first, without leading zeros; 0 is <<>>.  Python   *)
(*     longs are unbounded and 2**32 does not fit TLC's integers.          *)
(*   - A dsymutil line is the record of what the code reads of it.         *)
(*   - An exception is a record [type, msg]; NoExc is a normal return.     *)
(***************************************************************************)
EXTENDS Integers, Sequences, FiniteSets, TLC

VARIABLES pc, entry, flags, arg_profile_class, input, output, tried, result, parse

vars == <<pc, entry, flags, arg_profile_class, input, output, tried, result, parse>>

\* Bounds of ParseSpec: the longest text, in lines, given to each parser.
MaxLines == 3
MaxDsymLines == 3

\* Python's None; no str drawn below equals it.
None == "<None>"

NoExc == [type |-> "none", msg |-> ""]

Exc(type, msg) == [type |-> type, msg |-> msg]

UnknownFormat == Exc("RuntimeError", "Unknown profile format.")

NoSuitableConverter ==
    Exc("RuntimeError", "No suitable converter found - profile not recognized.")

UnknownDarwinArchitecture == Exc("RuntimeError", "Unknown Darwin Architecture")

ProfileClassNotProvided ==
    Exc("RuntimeError", "Profile class implementation not provided.")

\* (address, _, symbol) = line.strip().split() on a line without three fields.
UnpackError == Exc("ValueError", "unpack")

\* max() of an empty sequence.
MaxEmptyError == Exc("ValueError", "max() arg is an empty sequence")

\* self.input.ListFiles() when self.input is the str main passes with --converter.
NoListFilesError == Exc("AttributeError", "'str' object has no attribute 'ListFiles'")

UnknownConverterError == Exc("IOError", "Unknown converter")

SourceOpenError == Exc("IOError", "open")

MissingTypesError == Exc("KeyError", "ntkrnlmp_types")

(***************************************************************************)
(* long(address, 16)                                                       *)
(***************************************************************************)
HexDigits ==
    <<"0", "1", "2", "3", "4", "5", "6", "7", "8", "9", "a", "b", "c", "d", "e", "f">>

IsHexChar(c) == \E i \in DOMAIN HexDigits : HexDigits[i] = c

HexVal(c) == (CHOOSE i \in DOMAIN HexDigits : HexDigits[i] = c) - 1

RECURSIVE StripZeros(_)
StripZeros(d) ==
    IF d = <<>> THEN <<>>
    ELSE IF Head(d) = 0 THEN StripZeros(Tail(d)) ELSE d

\* long(tok, 16) raises ValueError unless tok is a non-empty run of hex digits.
LongValid(tok) == Len(tok) > 0 /\ \A i \in DOMAIN tok : IsHexChar(tok[i])

LongValue(tok) == StripZeros([i \in DOMAIN tok |-> HexVal(tok[i])])

RECURSIVE LexGreater(_, _)
LexGreater(a, b) ==
    IF a = <<>> THEN FALSE
    ELSE IF Head(a) # Head(b) THEN Head(a) > Head(b)
    ELSE LexGreater(Tail(a), Tail(b))

\* a > b on longs.
Greater(a, b) == Len(a) > Len(b) \/ (Len(a) = Len(b) /\ LexGreater(a, b))

\* 2**32
TwoPow32 == <<1, 0, 0, 0, 0, 0, 0, 0, 0>>

\* max(system_map.values()) of a non-empty dict.
MaxValue(m) ==
    CHOOSE v \in {m[k] : k \in DOMAIN m} :
        \A k \in DOMAIN m : ~Greater(m[k], v)

EmptyMap == [k \in {} |-> <<>>]

\* d[key] = value
DictSet(d, key, value) ==
    [k \in DOMAIN d \cup {key} |-> IF k = key THEN value ELSE d[k]]

(***************************************************************************)
(* LinuxConverter.ParseSystemMap                                           *)
(***************************************************************************)
RECURSIVE LinuxParseLines(_, _)
LinuxParseLines(lines, sys_map) ==
    IF lines = <<>> THEN [exc |-> NoExc, map |-> sys_map]
    ELSE LET line == Head(lines) IN
         IF Len(line) # 3 THEN [exc |-> UnpackError, map |-> EmptyMap]
         ELSE IF LongValid(line[1])
              THEN LinuxParseLines(Tail(lines),
                                   DictSet(sys_map, line[3], LongValue(line[1])))
              ELSE LinuxParseLines(Tail(lines), sys_map)

LinuxParseSystemMap(system_map) == LinuxParseLines(system_map, EmptyMap)

(***************************************************************************)
(* OSXConverter.ParseSystemMap                                             *)
(* A line is [symtab, last, kind, m]: symtab is "Symbol table for" in      *)
(* line, last is line.split()[-1], kind is the N_FUN/N_GSYM/N_STSYM test,  *)
(* m is DLSYM_REGEX's match, <<group(1), group(2)>>, or <<>> for no match. *)
(***************************************************************************)
DarwinBadArch(last) ==
    IF last = "(x86_64)" THEN "Darwin32"
    ELSE IF last = "(i386)" THEN "Darwin64"
    ELSE None

\* The class a "Symbol table for" line's last token names; None: unknown.
DarwinArch(last) ==
    IF last = "(x86_64)" THEN "Darwin64"
    ELSE IF last = "(i386)" THEN "Darwin32"
    ELSE None

RECURSIVE OSXParseLines(_, _, _)
OSXParseLines(lines, profile_class, sys_map) ==
    IF lines = <<>>
    THEN [exc |-> NoExc, map |-> sys_map, profile_class |-> profile_class]
    ELSE LET line == Head(lines)
             inspect == profile_class = None /\ line.symtab
             cls == IF inspect THEN DarwinArch(line.last) ELSE profile_class
             map == IF line.kind /\ line.m # <<>> /\ LongValid(line.m[1])
                    THEN DictSet(sys_map, line.m[2], LongValue(line.m[1]))
                    ELSE sys_map
         IN IF inspect /\ cls = None
            THEN [exc |-> UnknownDarwinArchitecture, map |-> EmptyMap,
                  profile_class |-> profile_class]
            ELSE OSXParseLines(Tail(lines), cls, map)

OSXParseSystemMap(system_map, profile_class) ==
    OSXParseLines(system_map, profile_class, EmptyMap)

(***************************************************************************)
(* Inputs                                                                  *)
(***************************************************************************)
A_ffff == <<"f", "f", "f", "f">>
A_max32 == <<"f", "f", "f", "f", "f", "f", "f", "f">>
A_2pow32 == <<"1", "0", "0", "0", "0", "0", "0", "0", "0">>
A_2pow32p1 == <<"1", "0", "0", "0", "0", "0", "0", "0", "1">>
A_zero == <<"0">>
A_nothex == <<"z", "z">>

L_text == <<A_ffff, "T", "_text">>
L_max32 == <<A_max32, "D", "high">>
L_2pow32 == <<A_2pow32, "D", "init_task">>
L_text64 == <<A_2pow32p1, "T", "_text">>
L_zero == <<A_zero, "A", "absolute">>
L_nothex == <<A_nothex, "T", "junk">>
L_blank == <<>>
L_two == <<A_ffff, "_etext">>
L_four == <<A_ffff, "T", "mod_fn", "[module]">>

\* System.map lines: well formed, not hexadecimal, and not of three fields.
LinePool ==
    {L_text, L_max32, L_2pow32, L_text64, L_zero, L_nothex, L_blank, L_two, L_four}

NoMatch == <<>>

D_x86_64 == [symtab |-> TRUE, last |-> "(x86_64)", kind |-> FALSE, m |-> NoMatch]
D_i386 == [symtab |-> TRUE, last |-> "(i386)", kind |-> FALSE, m |-> NoMatch]
D_ppc == [symtab |-> TRUE, last |-> "(ppc)", kind |-> FALSE, m |-> NoMatch]
D_fun == [symtab |-> FALSE, last |-> "'_main'", kind |-> TRUE,
          m |-> <<A_ffff, "_main">>]
D_gsym64 == [symtab |-> FALSE, last |-> "'_version'", kind |-> TRUE,
             m |-> <<A_2pow32p1, "_version">>]
D_other == [symtab |-> FALSE, last |-> "N_SO", kind |-> FALSE, m |-> NoMatch]

DsymLinePool == {D_x86_64, D_i386, D_ppc, D_fun, D_gsym64, D_other}

Texts(pool, n) == UNION {[1..k -> pool] : k \in 0..n}

\* profile_class as a caller can give it: absent, the empty str, a class name.
ProfileClasses == {None, "", "Linux64"}

(***************************************************************************)
(* Archives.  An input archive lists its entries in order; an entry is     *)
(* [name, data].  The output archive records what was stored under each    *)
(* name (data) and every write in order (log).                             *)
(***************************************************************************)
RE_SYSTEM_MAP == "(^|/)System.map"
RE_KO == "\\.ko$"
RE_DWARF == "\\.dwarf$"
RE_JSON == "\\.json$"
RE_DSYMUTIL == "dsymutil$"
RE_VTYPES == "\\.vtypes$"

\* re.search(regex, f, re.I) on the entry names used below.
Matches(regex, f) ==
    CASE regex = RE_SYSTEM_MAP -> f \in {"boot/System.map-3.0.0"}
      [] regex = RE_KO -> f \in {"empty.ko", "Module.KO"}
      [] regex = RE_DWARF -> f \in {"module.dwarf"}
      [] regex = RE_JSON -> f \in {"vtypes.json"}
      [] regex = RE_DSYMUTIL -> f \in {"10.8.dsymutil"}
      [] regex = RE_VTYPES -> f \in {"10.8.vtypes"}

File(name, data) == <<[name |-> name, data |-> data]>>

Absent == <<>>

SystemMapFiles ==
    {Absent} \cup
    {File("boot/System.map-3.0.0", t) :
        t \in {<<>>, <<L_text>>, <<L_2pow32>>, <<L_text, L_text64>>, <<L_zero>>,
               <<L_nothex>>, <<L_text, L_blank>>}}

DsymutilFiles ==
    {Absent} \cup
    {File("10.8.dsymutil", t) :
        t \in {<<D_x86_64, D_fun>>, <<D_i386, D_gsym64>>, <<D_ppc, D_fun>>,
               <<D_fun>>, <<D_other>>}}

KoFiles ==
    {Absent, File("Module.KO", <<>>), File("Module.KO", <<"ELF">>),
     File("empty.ko", <<>>) \o File("Module.KO", <<"ELF">>)}

DwarfFiles == {Absent, File("module.dwarf", <<>>), File("module.dwarf", <<"DW_TAG">>)}

JsonFiles == {Absent, File("vtypes.json", <<>>), File("vtypes.json", <<"{}">>)}

VtypesFiles == {Absent, File("10.8.vtypes", <<"mac_types">>)}

Archives ==
    {sm \o ko \o dw \o js \o ds \o vt :
        sm \in SystemMapFiles, ko \in KoFiles, dw \in DwarfFiles, js \in JsonFiles,
        ds \in DsymutilFiles, vt \in VtypesFiles}

\* What a Python source at the path given to WindowsConverter holds.
SourceFiles == {"missing", "no ntkrnlmp_types", "ntkrnlmp_types"}

OpenArchive(files) ==
    [kind |-> "archive", opened |-> TRUE, closed |-> FALSE, files |-> files,
     file |-> "missing"]

Path(file) ==
    [kind |-> "path", opened |-> FALSE, closed |-> FALSE, files |-> <<>>,
     file |-> file]

NoInput == [kind |-> "none", opened |-> FALSE, closed |-> FALSE, files |-> <<>>,
            file |-> "missing"]

NoOutput == [opened |-> FALSE, closed |-> FALSE, data |-> EmptyMap, log |-> <<>>]

OpenOutput == [NoOutput EXCEPT !.opened = TRUE]

\* output.StoreData(name, value); output.Create(name) and fd.write(value).
StoreData(out, name, value) ==
    [out EXCEPT !.data = DictSet(@, name, value), !.log = Append(@, name)]

(***************************************************************************)
(* ProfileConverter.SelectFile: the first entry whose name matches.        *)
(***************************************************************************)
SelectFile(inp, regex) ==
    LET hits == {i \in DOMAIN inp.files : Matches(regex, inp.files[i].name)} IN
    IF hits = {} THEN [isNone |-> TRUE, data |-> <<>>]
    ELSE [isNone |-> FALSE,
          data |-> inp.files[CHOOSE i \in hits : \A j \in hits : i <= j].data]

\* "if x:" on what SelectFile returned.
Truthy(x) == ~x.isNone /\ Len(x.data) > 0

(***************************************************************************)
(* WriteProfile                                                            *)
(***************************************************************************)
Metadata(profile_class) ==
    [ProfileClass |-> profile_class, Constants |-> "Constants.json",
     VTypes |-> "vtypes.json"]

BaseWriteProfile(profile_class, system_map, vtypes, out) ==
    StoreData(StoreData(StoreData(out, "Constants.json", system_map),
                        "vtypes.json", vtypes),
              "metadata", Metadata(profile_class))

\* largest_offset > 2**32
LargestOffsetIs64(largest_offset) == Greater(largest_offset, TwoPow32)

LinuxWriteProfile(profile_class, base, system_map, vtypes, out) ==
    IF profile_class = None
    THEN IF DOMAIN system_map = {}
         THEN [exc |-> MaxEmptyError, profile_class |-> profile_class, out |-> out]
         ELSE LET guess == IF LargestOffsetIs64(MaxValue(system_map))
                           THEN base \o "64" ELSE base \o "32"
              IN [exc |-> NoExc, profile_class |-> guess,
                  out |-> BaseWriteProfile(guess, system_map, vtypes, out)]
    ELSE [exc |-> NoExc, profile_class |-> profile_class,
          out |-> BaseWriteProfile(profile_class, system_map, vtypes, out)]

(***************************************************************************)
(* Convert.  The deep parsers (dwarfparser, dwarfdump, json, exec) are     *)
(* taken to return a type table, <<what was extracted, the source data>>.  *)
(* Every Convert returns [exc, profile_class, out, source]: out keeps what *)
(* was written before a failure.                                           *)
(***************************************************************************)
Raised(exc, profile_class, out) ==
    [exc |-> exc, profile_class |-> profile_class, out |-> out, source |-> "none"]

Wrote(w, source) ==
    [exc |-> w.exc, profile_class |-> w.profile_class, out |-> w.out,
     source |-> source]

LinuxTypeSourcesDwarfFirst == <<RE_DWARF, RE_KO, RE_JSON>>

\* The order in which LinuxConverter.Convert probes for a type source.
LinuxTypeSources == <<RE_KO, RE_DWARF, RE_JSON>>

LinuxVTypes(regex, data) ==
    CASE regex = RE_KO -> <<"VType", data>>
      [] regex = RE_DWARF -> <<"linux_types", data>>
      [] regex = RE_JSON -> <<"json", data>>

RECURSIVE LinuxConvertFrom(_, _, _, _, _)
LinuxConvertFrom(i, profile_class, system_map, inp, out) ==
    IF i > Len(LinuxTypeSources) THEN Raised(UnknownFormat, profile_class, out)
    ELSE LET regex == LinuxTypeSources[i]
             f == SelectFile(inp, regex)
             out1 == IF regex = RE_KO THEN StoreData(out, "module.ko", f.data)
                     ELSE out
         IN IF Truthy(f)
            THEN Wrote(LinuxWriteProfile(profile_class, "Linux", system_map,
                                         LinuxVTypes(regex, f.data), out1),
                       regex)
            ELSE LinuxConvertFrom(i + 1, profile_class, system_map, inp, out)

LinuxConvert(profile_class, inp, out) ==
    IF inp.kind # "archive" THEN Raised(NoListFilesError, profile_class, out)
    ELSE LET system_map == SelectFile(inp, RE_SYSTEM_MAP) IN
         IF ~Truthy(system_map) THEN Raised(UnknownFormat, profile_class, out)
         ELSE LET p == LinuxParseSystemMap(system_map.data) IN
              IF p.exc # NoExc THEN Raised(p.exc, profile_class, out)
              ELSE LinuxConvertFrom(1, profile_class, p.map, inp, out)

OSXConvert(profile_class, inp, out) ==
    IF inp.kind # "archive" THEN Raised(NoListFilesError, profile_class, out)
    ELSE LET system_map == SelectFile(inp, RE_DSYMUTIL) IN
         IF ~Truthy(system_map) THEN Raised(UnknownFormat, profile_class, out)
         ELSE LET p == OSXParseSystemMap(system_map.data, profile_class)
                  vtype_file == SelectFile(inp, RE_VTYPES)
                  json_file == SelectFile(inp, RE_JSON)
              IN IF p.exc # NoExc THEN Raised(p.exc, p.profile_class, out)
                 ELSE IF Truthy(vtype_file)
                 THEN Wrote(LinuxWriteProfile(p.profile_class, "Darwin", p.map,
                                              <<"mac_types", vtype_file.data>>, out),
                            RE_VTYPES)
                 ELSE IF Truthy(json_file)
                 THEN Wrote(LinuxWriteProfile(p.profile_class, "Darwin", p.map,
                                              <<"json", json_file.data>>, out),
                            RE_JSON)
                 ELSE Raised(UnknownFormat, p.profile_class, out)

\* "if not self.profile_class"
Falsy(profile_class) == profile_class = None \/ profile_class = ""

WindowsConvert(profile_class, inp, out) ==
    IF Falsy(profile_class) THEN Raised(ProfileClassNotProvided, profile_class, out)
    ELSE IF inp.kind # "path" \/ inp.file = "missing"
    THEN Raised(SourceOpenError, profile_class, out)
    ELSE IF inp.file # "ntkrnlmp_types"
    THEN Raised(MissingTypesError, profile_class, out)
    ELSE [exc |-> NoExc, profile_class |-> profile_class,
          out |-> BaseWriteProfile(profile_class, EmptyMap,
                                   <<"ntkrnlmp_types", <<inp.file>>>>, out),
          source |-> "python"]

Convert(cls, profile_class, inp, out) ==
    CASE cls = "LinuxConverter" -> LinuxConvert(profile_class, inp, out)
      [] cls = "OSXConverter" -> OSXConvert(profile_class, inp, out)
      [] cls = "WindowsConverter" -> WindowsConvert(profile_class, inp, out)

\* ProfileConverter.classes: the registry of the concrete converters, by name.
ConverterClasses == {"LinuxConverter", "OSXConverter", "WindowsConverter"}

(***************************************************************************)
(* ConvertProfile                                                          *)
(***************************************************************************)
ConverterOrderDarwinFirst == <<"OSXConverter", "LinuxConverter">>

\* for converter in (LinuxConverter, OSXConverter)
ConverterOrder == <<"LinuxConverter", "OSXConverter">>

\* except RuntimeError: pass
Caught(exc) == exc.type = "RuntimeError"

Attempt(cls, r) ==
    [cls |-> cls, exc |-> r.exc, source |-> r.source,
     profile_class |-> r.profile_class]

\* profile_class is ConvertProfile's parameter; converter(input, output) gets none.
RECURSIVE ConvertProfileFrom(_, _, _, _, _)
ConvertProfileFrom(i, inp, out, profile_class, attempts) ==
    IF i > Len(ConverterOrder)
    THEN [exc |-> NoSuitableConverter, out |-> out, tried |-> attempts]
    ELSE LET r == Convert(ConverterOrder[i], None, inp, out)
             att == Append(attempts, Attempt(ConverterOrder[i], r))
         IN IF r.exc = NoExc THEN [exc |-> NoExc, out |-> r.out, tried |-> att]
            ELSE IF Caught(r.exc)
            THEN ConvertProfileFrom(i + 1, inp, r.out, profile_class, att)
            ELSE [exc |-> r.exc, out |-> r.out, tried |-> att]

ConvertProfile(inp, out, profile_class) ==
    ConvertProfileFrom(1, inp, out, profile_class, <<>>)

(***************************************************************************)
(* ParseSpec: the parsers applied to every bounded text.                   *)
(***************************************************************************)
ParseIdle ==
    [which |-> "none", text |-> <<>>, profile_class |-> None, done |-> FALSE,
     exc |-> NoExc, map |-> EmptyMap, out_class |-> None]

ProgramIdle ==
    /\ pc = "idle"
    /\ entry = "none"
    /\ flags = [profile_class |-> None, converter |-> None]
    /\ arg_profile_class = None
    /\ input = NoInput
    /\ output = NoOutput
    /\ tried = <<>>
    /\ result = NoExc

ParseInit ==
    /\ ProgramIdle
    /\ \/ \E t \in Texts(LinePool, MaxLines) :
              parse = [ParseIdle EXCEPT !.which = "Linux", !.text = t]
       \/ \E t \in Texts(DsymLinePool, MaxDsymLines), c \in ProfileClasses :
              parse = [ParseIdle EXCEPT !.which = "OSX", !.text = t,
                                        !.profile_class = c]

ApplyLinuxParse ==
    /\ parse.which = "Linux" /\ ~parse.done
    /\ LET r == LinuxParseSystemMap(parse.text) IN
       parse' = [parse EXCEPT !.done = TRUE, !.exc = r.exc, !.map = r.map]
    /\ UNCHANGED <<pc, entry, flags, arg_profile_class, input, output, tried, result>>

ApplyOSXParse ==
    /\ parse.which = "OSX" /\ ~parse.done
    /\ LET r == OSXParseSystemMap(parse.text, parse.profile_class) IN
       parse' = [parse EXCEPT !.done = TRUE, !.exc = r.exc, !.map = r.map,
                              !.out_class = r.profile_class]
    /\ UNCHANGED <<pc, entry, flags, arg_profile_class, input, output, tried, result>>

ParseNext == ApplyLinuxParse \/ ApplyOSXParse

ParseSpec == ParseInit /\ [][ParseNext]_vars

(***************************************************************************)
(* Spec: the program.  A run is one call: of main (the command line), or   *)
(* of ConvertProfile, a converter's Convert or a converter's WriteProfile  *)
(* by a caller holding open archives.                                      *)
(***************************************************************************)
Init == ProgramIdle /\ parse = ParseIdle

ConverterFlags == {None, "NoSuchConverter"} \cup ConverterClasses

\* main up to io_manager.Factory(flags.destination, mode="w").
CallMain ==
    /\ pc = "idle"
    /\ \E c \in ProfileClasses, n \in ConverterFlags :
          /\ flags' = [profile_class |-> c, converter |-> n]
          /\ arg_profile_class' = c
    /\ entry' = "main"
    /\ \/ /\ output' = OpenOutput
          /\ pc' = "main_opened"
       \/ /\ pc' = "done"
          /\ UNCHANGED output
    /\ UNCHANGED <<input, tried, result, parse>>

\* main with --converter: the class looked up by name, given the source path.
MainConverter ==
    /\ pc = "main_opened"
    /\ flags.converter # None
    /\ pc' = "done"
    /\ \/ /\ flags.converter \notin ConverterClasses
          /\ result' = UnknownConverterError
          /\ UNCHANGED <<input, output, tried>>
       \/ /\ flags.converter \in ConverterClasses
          /\ \E file \in SourceFiles :
                LET r == Convert(flags.converter, flags.profile_class, Path(file),
                                 output)
                IN /\ input' = Path(file)
                   /\ output' = r.out
                   /\ tried' = <<Attempt(flags.converter, r)>>
                   /\ result' = r.exc
    /\ UNCHANGED <<entry, flags, arg_profile_class, parse>>

\* main without --converter: io_manager.Factory(flags.source, mode="r").
MainOpenInput ==
    /\ pc = "main_opened"
    /\ flags.converter = None
    /\ \/ \E a \in Archives :
             /\ input' = OpenArchive(a)
             /\ pc' = "main_with"
       \/ /\ pc' = "done"
          /\ UNCHANGED input
    /\ UNCHANGED <<entry, flags, arg_profile_class, output, tried, result, parse>>

\* with input, output: ConvertProfile(input, output)
MainWith ==
    /\ pc = "main_with"
    /\ LET r == ConvertProfile(input, output, None) IN
          /\ output' = [r.out EXCEPT !.closed = TRUE]
          /\ tried' = r.tried
          /\ result' = r.exc
    /\ input' = [input EXCEPT !.closed = TRUE]
    /\ pc' = "done"
    /\ UNCHANGED <<entry, flags, arg_profile_class, parse>>

CallConvertProfile ==
    /\ pc = "idle"
    /\ \E a \in Archives, c \in ProfileClasses :
          LET r == ConvertProfile(OpenArchive(a), OpenOutput, c) IN
             /\ input' = OpenArchive(a)
             /\ arg_profile_class' = c
             /\ output' = r.out
             /\ tried' = r.tried
             /\ result' = r.exc
    /\ entry' = "ConvertProfile"
    /\ pc' = "done"
    /\ UNCHANGED <<flags, parse>>

\* cls(input, output, profile_class).Convert()
CallConvert ==
    /\ pc = "idle"
    /\ \E cls \in ConverterClasses, c \in ProfileClasses :
       \E inp \in IF cls = "WindowsConverter"
                  THEN {Path(f) : f \in SourceFiles}
                  ELSE {OpenArchive(a) : a \in Archives} :
          LET r == Convert(cls, c, inp, OpenOutput) IN
             /\ input' = inp
             /\ arg_profile_class' = c
             /\ output' = r.out
             /\ tried' = <<Attempt(cls, r)>>
             /\ result' = r.exc
    /\ entry' = "Convert"
    /\ pc' = "done"
    /\ UNCHANGED <<flags, parse>>

SystemMaps ==
    {LinuxParseSystemMap(t).map :
        t \in {<<>>, <<L_text>>, <<L_2pow32>>, <<L_text, L_text64>>, <<L_zero>>}}

\* cls(input, output, profile_class).WriteProfile(system_map, vtypes)
CallWriteProfile ==
    /\ pc = "idle"
    /\ \E cls \in ConverterClasses, c \in ProfileClasses, m \in SystemMaps :
          LET vtypes == <<"json", <<"{}">>>>
              w == CASE cls = "LinuxConverter" ->
                            LinuxWriteProfile(c, "Linux", m, vtypes, OpenOutput)
                     [] cls = "OSXConverter" ->
                            LinuxWriteProfile(c, "Darwin", m, vtypes, OpenOutput)
                     [] cls = "WindowsConverter" ->
                            [exc |-> NoExc, profile_class |-> c,
                             out |-> BaseWriteProfile(c, m, vtypes, OpenOutput)]
          IN /\ arg_profile_class' = c
             /\ output' = w.out
             /\ tried' = <<Attempt(cls, Wrote(w, "direct"))>>
             /\ result' = w.exc
    /\ input' = OpenArchive(<<>>)
    /\ entry' = "WriteProfile"
    /\ pc' = "done"
    /\ UNCHANGED <<flags, parse>>

Next ==
    \/ CallMain
    \/ MainConverter
    \/ MainOpenInput
    \/ MainWith
    \/ CallConvertProfile
    \/ CallConvert
    \/ CallWriteProfile

Spec == Init /\ [][Next]_vars

(***************************************************************************)
(* Properties                                                              *)
(***************************************************************************)
Done == pc = "done"

\* The run went through ConvertProfile: called directly, or by main's autodetection.
RanConvertProfile ==
    Done /\ (entry = "ConvertProfile" \/ (entry = "main" /\ input.kind = "archive"))

\* Some entry of the input archive is named as regex asks.
HasEntry(regex) == \E i \in DOMAIN input.files : Matches(regex, input.files[i].name)

NoDuplicates(log) == \A i, j \in DOMAIN log : log[i] = log[j] => i = j

\* C1: in ConvertProfile a Convert() failure other than "format not recognized"
\* propagates at once: it is the last attempt and it is what the caller sees.
C1_OtherFailuresPropagate ==
    RanConvertProfile =>
        \A i \in DOMAIN tried :
            (tried[i].exc # NoExc /\ tried[i].exc # UnknownFormat)
                => (i = Len(tried) /\ result = tried[i].exc)

C2_Order ==
    /\ \A i \in DOMAIN tried :
          /\ i <= 2
          /\ tried[i].cls = <<"LinuxConverter", "OSXConverter">>[i]
          /\ tried[i].exc = NoExc => (i = Len(tried) /\ result = NoExc)
    /\ tried # <<>>
    /\ (~HasEntry(RE_SYSTEM_MAP) /\ HasEntry(RE_DSYMUTIL))
          => (Len(tried) = 2 /\ tried[1].exc = UnknownFormat)

\* C2 as claimed: Linux then Darwin, stopping at the first success; with only
\* the Darwin marker Linux's failure is swallowed and Darwin runs; "no suitable
\* converter found" exactly when the archive has neither marker.
C2_NoSuitableIffNoMarker ==
    RanConvertProfile =>
        /\ C2_Order
        /\ result = NoSuitableConverter
              <=> (~HasEntry(RE_SYSTEM_MAP) /\ ~HasEntry(RE_DSYMUTIL))

\* C2 as amended: Linux then Darwin, stopping at the first success; with only
\* the Darwin marker Linux's failure is swallowed and Darwin runs; "no suitable
\* converter found" whenever the archive has neither marker, and exactly when
\* both variants' Convert() raised a RuntimeError.
C2_NoSuitableIffBothRaised ==
    RanConvertProfile =>
        /\ C2_Order
        /\ (~HasEntry(RE_SYSTEM_MAP) /\ ~HasEntry(RE_DSYMUTIL))
              => result = NoSuitableConverter
        /\ result = NoSuitableConverter
              <=> (Len(tried) = 2
                   /\ \A i \in DOMAIN tried : tried[i].exc.type = "RuntimeError")

\* "No suitable converter found" for an archive that holds the Linux marker
\* (and no type source), after both variants were tried.
C2_Witness ==
    /\ RanConvertProfile
    /\ result = NoSuitableConverter
    /\ HasEntry(RE_SYSTEM_MAP)
    /\ Len(tried) = 2
    /\ tried[1].exc = UnknownFormat /\ tried[2].exc = UnknownFormat

\* C3: a conversion started with a non-empty profile class override (converter
\* constructor, ConvertProfile's argument, --profile_class) that succeeds stores
\* that override as the metadata's ProfileClass.
C3_OverrideIsStored ==
    (Done /\ result = NoExc /\ arg_profile_class \notin {None, ""}
          /\ "metadata" \in DOMAIN output.data)
        => output.data["metadata"].ProfileClass = arg_profile_class

C4_WellFormed(line) == Len(line) = 3 /\ LongValid(line[1])

C4_Expected(text) ==
    LET good == {i \in DOMAIN text : C4_WellFormed(text[i])}
        last(n) == CHOOSE i \in good :
                      /\ text[i][3] = n
                      /\ \A j \in good : text[j][3] = n => j <= i
    IN [n \in {text[i][3] : i \in good} |-> LongValue(text[last(n)][1])]

\* C4: LinuxConverter.ParseSystemMap never raises; its result maps the name of
\* every "<hex> <letter> <name>" line to the address (the last such line of a
\* name wins), and the other lines contribute nothing.
C4_BestEffortPerLine ==
    (parse.which = "Linux" /\ parse.done)
        => (parse.exc = NoExc /\ parse.map = C4_Expected(parse.text))

\* C5: without an explicit profile class a successful Linux conversion stores
\* Linux64 exactly when the largest address exceeds 2^32 - 1, else Linux32.
C5_Linux64IffAbove32Bits ==
    (Done /\ result = NoExc /\ arg_profile_class = None /\ tried # <<>>
          /\ tried[Len(tried)].cls = "LinuxConverter"
          /\ "metadata" \in DOMAIN output.data)
        => LET largest == MaxValue(output.data["Constants.json"]) IN
           output.data["metadata"].ProfileClass =
               IF ~Greater(TwoPow32, largest) THEN "Linux64" ELSE "Linux32"

\* C6: nothing is stored under Constants.json, vtypes.json or metadata by a
\* converter whose profile class is unresolved, and no metadata record holds a
\* null ProfileClass.
C6_ResolvedBeforeWrite ==
    /\ "metadata" \in DOMAIN output.data
          => output.data["metadata"].ProfileClass # None
    /\ (Done /\ tried # <<>>
             /\ {"Constants.json", "vtypes.json", "metadata"} \cap DOMAIN output.data # {})
          => tried[Len(tried)].profile_class # None

C7_TableEmptyOrZero ==
    LET f == SelectFile(input, RE_SYSTEM_MAP) IN
    /\ Truthy(f)
    /\ \A i \in DOMAIN f.data :
          /\ Len(f.data[i]) = 3
          /\ LongValid(f.data[i][1]) => LongValue(f.data[i][1]) = <<>>

\* C7: ConvertProfile on an archive whose Linux marker matched, with a type
\* source, whose symbol table parses to nothing or to zero addresses only,
\* fails with that failure: nothing is guessed, no metadata is written and the
\* Darwin variant is not tried.
C7_NoSilentGuess ==
    (RanConvertProfile /\ C7_TableEmptyOrZero
          /\ \E r \in {RE_KO, RE_DWARF, RE_JSON} : Truthy(SelectFile(input, r)))
        => /\ result # NoExc
           /\ result # NoSuitableConverter
           /\ Len(tried) = 1
           /\ "metadata" \notin DOMAIN output.data

C8_Symtabs == {i \in DOMAIN parse.text : parse.text[i].symtab}

C8_First == CHOOSE i \in C8_Symtabs : \A j \in C8_Symtabs : i <= j

\* C8: OSXConverter.ParseSystemMap with no class known decides by the last
\* token of the first "Symbol table for" line: (x86_64) Darwin64, (i386)
\* Darwin32, anything else the unknown-architecture failure; a class already
\* known is never changed and no such line raises.
C8_FirstSymbolTableLineDecides ==
    (parse.which = "OSX" /\ parse.done) =>
        IF parse.profile_class # None
        THEN parse.exc = NoExc /\ parse.out_class = parse.profile_class
        ELSE IF C8_Symtabs = {}
        THEN parse.exc = NoExc /\ parse.out_class = None
        ELSE LET last == parse.text[C8_First].last IN
             CASE last = "(x86_64)" ->
                      parse.exc = NoExc /\ parse.out_class = "Darwin64"
               [] last = "(i386)" ->
                      parse.exc = NoExc /\ parse.out_class = "Darwin32"
               [] OTHER -> parse.exc = UnknownDarwinArchitecture

\* An (x86_64) line followed by a (ppc) line, parsed without a class: Darwin64.
C8_Witness ==
    /\ parse.which = "OSX" /\ parse.done
    /\ parse.profile_class = None
    /\ Len(parse.text) >= 2
    /\ parse.text[1] = D_x86_64 /\ parse.text[2] = D_ppc
    /\ parse.exc = NoExc /\ parse.out_class = "Darwin64"

\* A run that is one call of LinuxConverter(...).Convert() on an archive.
C9_LinuxConvertRan ==
    Done /\ entry = "Convert" /\ tried[1].cls = "LinuxConverter"

C9_Outcome(expected) ==
    /\ tried[1].source = expected
    /\ "module.ko" \in DOMAIN output.data <=> expected = RE_KO
    /\ expected = RE_KO
          => output.data["module.ko"] = SelectFile(input, RE_KO).data
    /\ expected = "none" => (tried[1].exc = UnknownFormat /\ output.log = <<>>)

\* C9 as claimed: with the System.map marker the type source is the .ko entry
\* if one exists, else the .dwarf entry if one exists, else the .json entry;
\* module.ko is written, identical to the .ko entry, iff the .ko path is taken;
\* with none of the three the conversion fails as format not recognized and
\* writes nothing.
C9_FirstExistingSource ==
    (C9_LinuxConvertRan /\ HasEntry(RE_SYSTEM_MAP)) =>
        C9_Outcome(IF HasEntry(RE_KO) THEN RE_KO
                   ELSE IF HasEntry(RE_DWARF) THEN RE_DWARF
                   ELSE IF HasEntry(RE_JSON) THEN RE_JSON
                   ELSE "none")

C9_NonEmpty(regex) ==
    \E i \in DOMAIN input.files :
        /\ Matches(regex, input.files[i].name)
        /\ \A j \in 1..(i - 1) : ~Matches(regex, input.files[j].name)
        /\ input.files[i].data # <<>>

\* C9 as amended: "exists" reads "the first entry of that name is not empty".
\* With a non-empty System.map whose lines all have three fields the type
\* source is the first of .ko, .dwarf, .json whose first entry is not empty
\* (module.ko and the no-source failure as claimed); with the first System.map
\* entry empty the conversion fails as format not recognized, and with a line
\* not of three fields it fails with a ValueError, in both cases using no type
\* source and writing nothing.
C9_FirstNonEmptySource ==
    C9_LinuxConvertRan =>
        IF ~C9_NonEmpty(RE_SYSTEM_MAP)
        THEN C9_Outcome("none")
        ELSE IF \E l \in {SelectFile(input, RE_SYSTEM_MAP).data[i] :
                             i \in DOMAIN SelectFile(input, RE_SYSTEM_MAP).data} :
                    Len(l) # 3
        THEN /\ tried[1].source = "none"
             /\ tried[1].exc.type = "ValueError"
             /\ output.log = <<>>
        ELSE C9_Outcome(IF C9_NonEmpty(RE_KO) THEN RE_KO
                        ELSE IF C9_NonEmpty(RE_DWARF) THEN RE_DWARF
                        ELSE IF C9_NonEmpty(RE_JSON) THEN RE_JSON
                        ELSE "none")

\* An archive with an empty .ko entry before a non-empty one, and a .dwarf
\* entry: the .dwarf entry is the type source and module.ko is not written.
C9_Witness ==
    /\ C9_LinuxConvertRan
    /\ HasEntry(RE_KO) /\ ~C9_NonEmpty(RE_KO)
    /\ tried[1].source = RE_DWARF
    /\ tried[1].exc = NoExc
    /\ "module.ko" \notin DOMAIN output.data

\* C10: when main ends, every archive it opened is closed, and no output entry
\* name was written twice.
C10_ArchivesClosed ==
    (Done /\ entry = "main") =>
        /\ output.opened => output.closed
        /\ input.opened => input.closed
        /\ NoDuplicates(output.log)

====
